---- MODULE Spec2Model ----
(***************************************************************************)
(* State-machine model of the NFT series contract: the Series Registry    *)
(* (seriesById), the Token Ledger (tokensById), the Owner Index            *)
(* (tokensPerOwner), the two allow-lists, and the host storage that backs  *)
(* the UnorderedSet of token IDs each series carries.                      *)
(*                                                                         *)
(* One action per contract entry point.  An entry point that panics        *)
(* (assert / near.panic) aborts the whole invocation: the host discards    *)
(* every write the invocation made.  The variable `last` records the       *)
(* outcome of the most recent invocation.                                  *)
(***************************************************************************)
EXTENDS Integers, Sequences, FiniteSets, TLC

VARIABLES
    approvedMinters,   \* LookupSet "approvedMinters"
    approvedCreators,  \* LookupSet "approvedCreators"
    seriesById,        \* UnorderedMap "seriesById": series id -> Series
    tokensById,        \* UnorderedMap "tokensById": token id -> Token
    tokensPerOwner,    \* LookupMap "tokensPerOwner": account -> token ids
    storage,           \* host storage under the token sets' prefixes
    pending,           \* nft_on_transfer calls in flight, awaiting nft_resolve_transfer
    unrenamed,         \* history: ids whose series was created there and never renamed
    last               \* outcome of the most recent invocation

vars == <<approvedMinters, approvedCreators, seriesById, tokensById,
          tokensPerOwner, storage, pending, unrenamed, last>>

ledger == <<seriesById, tokensById, tokensPerOwner, storage>>

----------------------------------------------------------------------------
(* Bounds of the model *)

MaxCopies == 1
MaxTokens == 2
MaxDeposit == 2
MaxPending == 1
MaxApprovals == 2

----------------------------------------------------------------------------
(* Inputs *)

currentAccountId == "nft"

Accounts == {currentAccountId, "alice", "bob"}

\* accounts that invoke the series, mint and owner entry points
Callers == {currentAccountId, "alice"}

\* accounts the contract puts on (or takes off) an allow-list
Listable == {"alice"}

\* accounts that receive minted tokens
Receivers == {"alice", "bob"}

\* series identifiers the invocations name
SeriesIds == {0, 1}

\* an id that no create_series, nft_mint or update_series_id names
ParkedId == 2

None == <<>>
Some(n) == <<n>>

\* metadata.copies: unset, or the cap
CopiesInputs == {None, Some(MaxCopies)}

\* the royalty table a series is created with (account -> basis points)
RoyaltyInputs == {[a \in {"alice", "bob"} |-> IF a = "alice" THEN 2000 ELSE 1000]}

\* approval_id argument of the transfers: omitted
ApprovalIdInputs == {None}

\* max_len_payout argument of nft_payout and nft_transfer_payout
MaxLenPayoutInputs == {1, 2}

\* balance argument of nft_payout
BalanceInputs == {1, 99, 1000}

\* balance argument of nft_transfer_payout
TransferBalanceInputs == {99}

PromiseOutcomes == {"failed", "return", "keep"}

\* account_id argument of nft_approve and nft_revoke
ApprovedAccountInputs == {"bob"}

\* from_index argument of the paginated views: omitted, or a decimal string
FromIndexInputs == {None} \cup {Some(ToString(n)) : n \in 0..MaxTokens}

\* limit argument of the paginated views: omitted, or a number
LimitInputs == {None} \cup {Some(n) : n \in 1..MaxTokens}

OK == "ok"

\* deposit attached to create_series: none, the cost of a series record,
\* and more than it
DepositInputs == {0, 1, MaxDeposit}

----------------------------------------------------------------------------
(* Maps with a growing key set *)

EmptyMap == [k \in {} |-> 0]

Put(f, k, v) == [x \in (DOMAIN f) \cup {k} |-> IF x = k THEN v ELSE f[x]]

Del(f, k) == [x \in (DOMAIN f) \ {k} |-> f[x]]

\* royalty tables of the series the payouts are computed for: empty, one
\* account with everything, the shares summing to less than, exactly and
\* more than 10000 basis points, and three accounts
RoyaltyTables ==
    { EmptyMap,
      [a \in {"alice"} |-> 10000],
      [a \in {"alice", "bob"} |-> IF a = "alice" THEN 2000 ELSE 1000],
      [a \in {"alice", "bob"} |-> 3333],
      [a \in {"alice", "bob"} |-> 5000],
      [a \in {"alice", "bob"} |-> IF a = "alice" THEN 6000 ELSE 5000],
      [a \in {"alice", "bob", "nft"} |-> 3000] }

----------------------------------------------------------------------------
(* near-sdk-js UnorderedSet, as the contract uses it.  The object that is  *)
(* serialized into the Series record holds only the prefix and the length; *)
(* the elements live in host storage under the prefix: a vector            *)
(* (prefix + "e" + index) and an index lookup (prefix + "i" + element).    *)

\* new UnorderedSet(`${id}${predecessor}`)
SeriesPrefix(id, predecessor) == ToString(id) \o predecessor

NewUnorderedSet(prefix) == [prefix |-> prefix, length |-> 0]

Prefixes == {SeriesPrefix(id, a) : id \in SeriesIds, a \in Callers}

EmptyStorage == [p \in Prefixes |-> [e |-> <<>>, i |-> {}]]

\* Vector.push at position `index` (0-based): writes the key prefix+"e"+index
VectorWrite(e, index, element) ==
    IF index < Len(e) THEN [e EXCEPT ![index + 1] = element]
    ELSE Append(e, element)

\* UnorderedSet.set(element): no write when the index lookup key exists
UnorderedSetSet(st, set, element) ==
    IF element \in st[set.prefix].i
    THEN [storage |-> st, set |-> set]
    ELSE [storage |-> [st EXCEPT ![set.prefix] =
                          [e |-> VectorWrite(@.e, set.length, element),
                           i |-> @.i \cup {element}]],
          set |-> [set EXCEPT !.length = @ + 1]]

\* UnorderedSet.toArray(): the vector's keys 0 .. length-1
ToArray(st, set) == [k \in 1..set.length |-> st[set.prefix].e[k]]

----------------------------------------------------------------------------
(* Token IDs *)

\* `${id}:${curLen + 1}`
MintTokenId(id, curLen) == ToString(id) \o ":" \o ToString(curLen + 1)

\* a token ID no mint derives (sequence numbers start at 1)
AbsentTokenId == MintTokenId(0, -1)

----------------------------------------------------------------------------
(* Outcome of an invocation *)

\* what the invocation found persisted when it started
Persisted ==
    [seriesById |-> seriesById, tokensById |-> tokensById,
     tokensPerOwner |-> tokensPerOwner, storage |-> storage]

\* faulty variant: the failed check returns early instead of aborting the invocation
Panic_KeepWrites(msg, staged) == [err |-> msg, state |-> staged]

\* assert(false, msg) / near.panic(msg): the invocation aborts and the host
\* discards every write it staged
Panic(msg, staged) == [err |-> msg, state |-> Persisted]

\* the invocation returns normally: its writes are committed
Return(staged) == [err |-> OK, state |-> staged]

\* the same, with the lines the invocation logged
ReturnLogs(staged, logs) == [err |-> OK, state |-> staged, logs |-> logs]

\* the same, with the amount the invocation transfers back to its caller
ReturnRefund(staged, refund) == [err |-> OK, state |-> staged, refund |-> refund]

\* the same, with the value the entry point returns to its caller
ReturnValue(staged, value) == [err |-> OK, state |-> staged, value |-> value]

----------------------------------------------------------------------------
(* Owner Index *)

\* internalAddTokenToOwner: UnorderedSet.set on the account's set, created
\* when the account has none
internalAddTokenToOwner(perOwner, accountId, tokenId) ==
    LET tokenSet == IF accountId \in DOMAIN perOwner THEN perOwner[accountId] ELSE <<>>
    IN  Put(perOwner, accountId,
            IF \E k \in 1..Len(tokenSet) : tokenSet[k] = tokenId
            THEN tokenSet ELSE Append(tokenSet, tokenId))

\* UnorderedSet.remove on a sequence of distinct elements: the last element
\* takes the removed element's place
SwapRemove(seq, x) ==
    LET k == CHOOSE j \in 1..Len(seq) : seq[j] = x
    IN  SubSeq([seq EXCEPT ![k] = seq[Len(seq)]], 1, Len(seq) - 1)

\* internalRemoveTokenFromOwner: the account's entry is dropped when its
\* set becomes empty
internalRemoveTokenFromOwner(perOwner, accountId, tokenId) ==
    LET tokenSet == SwapRemove(perOwner[accountId], tokenId)
    IN  IF tokenSet = <<>> THEN Del(perOwner, accountId)
        ELSE Put(perOwner, accountId, tokenSet)

----------------------------------------------------------------------------
(* Mint Engine *)

\* faulty variant: the contract account is not exempt from the allow-list
MintAuthorized_AllowListOnly(predecessor) == predecessor \in approvedMinters

\* the authorization check of internalMint
MintAuthorized(predecessor) ==
    predecessor # currentAccountId => predecessor \in approvedMinters

\* faulty variant: off by one, a full series accepts one more mint
SeriesHasRoom_OffByOne(series, curLen) ==
    series.metadata.copies # None => curLen <= series.metadata.copies[1]

\* faulty variant: the cap is never checked
SeriesHasRoom_Unchecked(series, curLen) == TRUE

\* the copies check of internalMint
SeriesHasRoom(series, curLen) ==
    series.metadata.copies # None => curLen < series.metadata.copies[1]

NewToken(id, receiverId) ==
    [series_id |-> id, owner_id |-> receiverId,
     approved_account_ids |-> EmptyMap, next_approval_id |-> 0]

\* faulty variant: the token is stored but not added to the receiver's index
MintLedgerWrites_NoOwnerIndex(staged, tokenId, token) ==
    [staged EXCEPT !.tokensById = Put(staged.tokensById, tokenId, token)]

\* tokensById.set(tokenId, token); internalAddTokenToOwner(...)
MintLedgerWrites(staged, tokenId, token) ==
    [staged EXCEPT
       !.tokensById = Put(staged.tokensById, tokenId, token),
       !.tokensPerOwner =
           internalAddTokenToOwner(staged.tokensPerOwner, token.owner_id, tokenId)]

NFT_METADATA_SPEC == "nft-1.0.0"

NFT_STANDARD_NAME == "nep171"

\* faulty variant: the event lists the series id, not the token ID
nftMintLog_SeriesId(token, tokenId) ==
    [standard |-> NFT_STANDARD_NAME,
     version  |-> NFT_METADATA_SPEC,
     event    |-> "nft_mint",
     data     |-> <<[owner_id |-> token.owner_id,
                     token_ids |-> <<ToString(token.series_id)>>]>>]

\* the mint log of the events standard
nftMintLog(token, tokenId) ==
    [standard |-> NFT_STANDARD_NAME,
     version  |-> NFT_METADATA_SPEC,
     event    |-> "nft_mint",
     data     |-> <<[owner_id |-> token.owner_id, token_ids |-> <<tokenId>>]>>]

\* the token ID a mint on series `id` derives in the current state
NextTokenId(id) == MintTokenId(id, seriesById[id].tokens.length)

\* faulty variant: the token is written without the existence check
internalMint_NoExistenceCheck(predecessor, id, receiverId) ==
    IF ~MintAuthorized(predecessor) THEN Panic("Not approved minter", Persisted)
    ELSE IF id \notin DOMAIN seriesById THEN Panic("no series", Persisted)
    ELSE
    LET series == seriesById[id]
        curLen == series.tokens.length
    IN  IF ~SeriesHasRoom(series, curLen) THEN Panic("Series is full", Persisted)
        ELSE
        LET tokenId == MintTokenId(id, curLen)
            r == UnorderedSetSet(storage, series.tokens, tokenId)
            staged1 == [Persisted EXCEPT
                          !.storage = r.storage,
                          !.seriesById = Put(seriesById, id, [series EXCEPT !.tokens = r.set])]
            token == NewToken(id, receiverId)
        IN  ReturnLogs(MintLedgerWrites(staged1, tokenId, token),
                       <<nftMintLog(token, tokenId)>>)

internalMint(predecessor, id, receiverId) ==
    IF ~MintAuthorized(predecessor) THEN Panic("Not approved minter", Persisted)
    ELSE IF id \notin DOMAIN seriesById THEN Panic("no series", Persisted)
    ELSE
    LET series == seriesById[id]
        curLen == series.tokens.length
    IN  IF ~SeriesHasRoom(series, curLen) THEN Panic("Series is full", Persisted)
        ELSE
        LET tokenId == MintTokenId(id, curLen)
            r == UnorderedSetSet(storage, series.tokens, tokenId)
            \* tokens.set(tokenId); series.tokens = tokens; seriesById.set(id, series)
            staged1 == [Persisted EXCEPT
                          !.storage = r.storage,
                          !.seriesById = Put(seriesById, id, [series EXCEPT !.tokens = r.set])]
            token == NewToken(id, receiverId)
        IN  IF tokenId \in DOMAIN tokensById
            THEN Panic("Token already exists", staged1)
            ELSE ReturnLogs(MintLedgerWrites(staged1, tokenId, token),
                            <<nftMintLog(token, tokenId)>>)

----------------------------------------------------------------------------
(* Series Registry *)

\* storage a Series record takes, in units of the storage byte cost
SeriesStorageCost == 1

\* near.storageUsage(), as far as the series writes change it
storageUsage(st) == SeriesStorageCost * Cardinality(DOMAIN st.seriesById)

\* faulty variant: both measurements are taken before the series write
RequiredStorage_MeasuredBeforeWrite(initialStorageUsage, finalStorageUsage) ==
    initialStorageUsage - initialStorageUsage

\* requiredStorageInBytes: the usage after the write minus the initial usage
RequiredStorage(initialStorageUsage, finalStorageUsage) ==
    finalStorageUsage - initialStorageUsage

\* refundDeposit: panics when the deposit does not cover the cost
DepositCovers(requiredCost, attachedDeposit) == requiredCost <= attachedDeposit

\* refundDeposit: the excess that is transferred back to the predecessor
RefundDeposit(requiredCost, attachedDeposit) == attachedDeposit - requiredCost

\* the authorization check of internalCreateSeries
CreateAuthorized(predecessor) ==
    predecessor # currentAccountId => predecessor \in approvedMinters

NewSeries(id, predecessor, copies, royalty) ==
    [metadata |-> [copies |-> copies],
     royalty  |-> royalty,
     owner_id |-> predecessor,
     tokens   |-> NewUnorderedSet(SeriesPrefix(id, predecessor))]

\* faulty variant: the series write is not guarded by the duplicate check
internalCreateSeries_Overwrite(predecessor, id, copies, royalty, attachedDeposit) ==
    IF ~CreateAuthorized(predecessor) THEN Panic("Not approved minter", Persisted)
    ELSE
    LET staged == [Persisted EXCEPT
                     !.seriesById = Put(seriesById, id, NewSeries(id, predecessor, copies, royalty))]
        requiredStorage == RequiredStorage(storageUsage(Persisted), storageUsage(staged))
    IN  IF ~DepositCovers(requiredStorage, attachedDeposit)
        THEN Panic("Must attach deposit to cover storage", staged)
        ELSE ReturnRefund(staged, RefundDeposit(requiredStorage, attachedDeposit))

internalCreateSeries(predecessor, id, copies, royalty, attachedDeposit) ==
    IF ~CreateAuthorized(predecessor) THEN Panic("Not approved minter", Persisted)
    ELSE IF id \in DOMAIN seriesById THEN Panic("Series already exists", Persisted)
    ELSE
    LET staged == [Persisted EXCEPT
                     !.seriesById = Put(seriesById, id, NewSeries(id, predecessor, copies, royalty))]
        requiredStorage == RequiredStorage(storageUsage(Persisted), storageUsage(staged))
    IN  IF ~DepositCovers(requiredStorage, attachedDeposit)
        THEN Panic("Must attach deposit to cover storage", staged)
        ELSE ReturnRefund(staged, RefundDeposit(requiredStorage, attachedDeposit))

\* faulty variant: the rename does not check that newId is free
internalUpdateSeriesId_NoDuplicateCheck(caller, currentId, newId) ==
    IF currentId \notin DOMAIN seriesById THEN Panic("no series", Persisted)
    ELSE
    LET series == seriesById[currentId]
    IN  IF series.owner_id # caller THEN Panic("Not owner", Persisted)
        ELSE Return([Persisted EXCEPT
                       !.seriesById = Put(Del(seriesById, currentId), newId, series)])

\* faulty variant: the contract account passes the owner check of any series
internalUpdateSeriesId_ContractExempt(caller, currentId, newId) ==
    IF currentId \notin DOMAIN seriesById THEN Panic("no series", Persisted)
    ELSE
    LET series == seriesById[currentId]
    IN  IF series.owner_id # caller /\ caller # currentAccountId
        THEN Panic("Not owner", Persisted)
        ELSE IF newId \in DOMAIN seriesById THEN Panic("New Series already exists", Persisted)
        ELSE Return([Persisted EXCEPT
                       !.seriesById = Put(Del(seriesById, currentId), newId, series)])

\* faulty variant: the record is set under newId and not removed from currentId
internalUpdateSeriesId_NoRemove(caller, currentId, newId) ==
    IF currentId \notin DOMAIN seriesById THEN Panic("no series", Persisted)
    ELSE
    LET series == seriesById[currentId]
    IN  IF series.owner_id # caller THEN Panic("Not owner", Persisted)
        ELSE IF newId \in DOMAIN seriesById THEN Panic("New Series already exists", Persisted)
        ELSE Return([Persisted EXCEPT !.seriesById = Put(seriesById, newId, series)])

internalUpdateSeriesId(caller, currentId, newId) ==
    IF currentId \notin DOMAIN seriesById THEN Panic("no series", Persisted)
    ELSE
    LET series == seriesById[currentId]
    IN  IF series.owner_id # caller THEN Panic("Not owner", Persisted)
        ELSE IF newId \in DOMAIN seriesById THEN Panic("New Series already exists", Persisted)
        ELSE Return([Persisted EXCEPT
                       !.seriesById = Put(Del(seriesById, currentId), newId, series)])

----------------------------------------------------------------------------
(* Transfer Protocol *)

\* the caller is the owner, or an approval holder whose stored approval id
\* matches the one supplied (when one is supplied)
TransferAuthorized(token, senderId, approvalId) ==
    \/ senderId = token.owner_id
    \/ /\ senderId \in DOMAIN token.approved_account_ids
       /\ approvalId # None => token.approved_account_ids[senderId] = approvalId[1]

\* moves the token to receiverId in both the Token Ledger and the Owner
\* Index and clears its approvals
MoveToken(st, tokenId, receiverId) ==
    LET token == st.tokensById[tokenId]
    IN  [st EXCEPT
           !.tokensPerOwner =
               internalAddTokenToOwner(
                   internalRemoveTokenFromOwner(st.tokensPerOwner, token.owner_id, tokenId),
                   receiverId, tokenId),
           !.tokensById = Put(st.tokensById, tokenId,
                              [token EXCEPT !.owner_id = receiverId,
                                            !.approved_account_ids = EmptyMap])]

internalNftTransfer(senderId, receiverId, tokenId, approvalId) ==
    IF tokenId \notin DOMAIN tokensById THEN Panic("Token not found", Persisted)
    ELSE
    LET token == tokensById[tokenId]
    IN  IF ~TransferAuthorized(token, senderId, approvalId)
        THEN Panic("Unauthorized", Persisted)
        ELSE IF receiverId = token.owner_id
        THEN Panic("The token owner and the receiver should be different", Persisted)
        ELSE Return(MoveToken(Persisted, tokenId, receiverId))

\* Phase 1 of transfer-and-call: the simple transfer; the call to the
\* receiver's nft_on_transfer and its continuation are scheduled by the action
internalNftTransferCall(senderId, receiverId, tokenId, approvalId) ==
    internalNftTransfer(senderId, receiverId, tokenId, approvalId)

\* faulty variant: the rollback does not re-validate the current owner
internalResolveTransfer_NoRevalidation(ownerId, receiverId, tokenId, approvedAccountIds, outcome) ==
    IF outcome = "keep" THEN ReturnValue(Persisted, TRUE)
    ELSE IF tokenId \notin DOMAIN tokensById THEN ReturnValue(Persisted, TRUE)
    ELSE ReturnValue(MoveToken(Persisted, tokenId, ownerId), FALSE)

\* faulty variant: the rollback puts the approvals of before Phase 1 back
internalResolveTransfer_RestoreApprovals(ownerId, receiverId, tokenId, approvedAccountIds, outcome) ==
    IF outcome = "keep" THEN ReturnValue(Persisted, TRUE)
    ELSE IF tokenId \notin DOMAIN tokensById THEN ReturnValue(Persisted, TRUE)
    ELSE IF tokensById[tokenId].owner_id # receiverId THEN ReturnValue(Persisted, TRUE)
    ELSE LET back == MoveToken(Persisted, tokenId, ownerId)
         IN  ReturnValue([back EXCEPT !.tokensById[tokenId].approved_account_ids =
                                          approvedAccountIds],
                         FALSE)

\* Phase 2: roll the transfer back unless the receiver keeps the token or
\* the token has moved on since Phase 1; the approvals of before Phase 1
\* (approvedAccountIds) are not restored.  Returns whether the receiver
\* kept the token.
internalResolveTransfer(ownerId, receiverId, tokenId, approvedAccountIds, outcome) ==
    IF outcome = "keep" THEN ReturnValue(Persisted, TRUE)
    ELSE IF tokenId \notin DOMAIN tokensById THEN ReturnValue(Persisted, TRUE)
    ELSE IF tokensById[tokenId].owner_id # receiverId THEN ReturnValue(Persisted, TRUE)
    ELSE ReturnValue(MoveToken(Persisted, tokenId, ownerId), FALSE)

----------------------------------------------------------------------------
(* Royalty Engine *)

\* basis points of the whole balance
BasisPointsTotal == 10000

\* floor(balance * basisPoints / 10000)
royaltyToPayout(basisPoints, balance) == (balance * basisPoints) \div BasisPointsTotal

RECURSIVE SumOver(_, _)
SumOver(f, S) ==
    IF S = {} THEN 0
    ELSE LET x == CHOOSE y \in S : TRUE
         IN  f[x] + SumOver(f, S \ {x})

\* faulty variant: the owner is paid the floored share of the basis points
\* the table leaves over, not the remainder of the balance
Payout_OwnerShareFloored(royalty, ownerId, balance) ==
    LET others == (DOMAIN royalty) \ {ownerId}
    IN  [a \in others \cup {ownerId} |->
            IF a = ownerId
            THEN royaltyToPayout(BasisPointsTotal - SumOver(royalty, others), balance)
            ELSE royaltyToPayout(royalty[a], balance)]

\* every account of the royalty table gets its floored share; the owner
\* gets the remainder, merged with the owner's own share if the table has one
Payout(royalty, ownerId, balance) ==
    LET shares == [a \in DOMAIN royalty |-> royaltyToPayout(royalty[a], balance)]
        remainder == balance - SumOver(shares, DOMAIN shares)
    IN  [a \in (DOMAIN royalty) \cup {ownerId} |->
            (IF a \in DOMAIN royalty THEN shares[a] ELSE 0)
            + (IF a = ownerId THEN remainder ELSE 0)]

internalNftPayout(tokenId, balance, maxLenPayout) ==
    IF tokenId \notin DOMAIN tokensById THEN Panic("Token not found", Persisted)
    ELSE
    LET token == tokensById[tokenId]
    IN  IF token.series_id \notin DOMAIN seriesById THEN Panic("no series", Persisted)
        ELSE
        LET royalty == seriesById[token.series_id].royalty
        IN  IF Cardinality(DOMAIN royalty) > maxLenPayout
            THEN Panic("Market cannot payout to that many receivers", Persisted)
            ELSE ReturnValue(Persisted, Payout(royalty, token.owner_id, balance))

\* nft_transfer_payout: the payout is computed against the previous owner
\* from the royalty table of the token's series, and the token is
\* transferred under the rules of the simple transfer
internalNftTransferPayout(senderId, receiverId, tokenId, approvalId, balance, maxLenPayout) ==
    LET t == internalNftTransfer(senderId, receiverId, tokenId, approvalId)
    IN  IF t.err # OK THEN t
        ELSE LET q == internalNftPayout(tokenId, balance, maxLenPayout)
             IN  IF q.err # OK THEN Panic(q.err, t.state)
                 ELSE ReturnValue(t.state, q.value)

----------------------------------------------------------------------------
(* Approval Manager *)

\* faulty variant: the counter restarts when the approval map is empty
GrantApproval_ReuseIds(token, accountId) ==
    LET approvalId == IF DOMAIN token.approved_account_ids = {} THEN 0
                      ELSE token.next_approval_id
    IN  [token EXCEPT
           !.approved_account_ids = Put(@, accountId, approvalId),
           !.next_approval_id = approvalId + 1]

\* assigns next_approval_id to accountId in the approval map and increments
\* the counter
GrantApproval(token, accountId) ==
    [token EXCEPT
       !.approved_account_ids = Put(@, accountId, token.next_approval_id),
       !.next_approval_id = @ + 1]

internalNftApprove(caller, tokenId, accountId) ==
    IF tokenId \notin DOMAIN tokensById THEN Panic("Token not found", Persisted)
    ELSE
    LET token == tokensById[tokenId]
    IN  IF caller # token.owner_id THEN Panic("Unauthorized", Persisted)
        ELSE ReturnValue([Persisted EXCEPT
                            !.tokensById = Put(tokensById, tokenId,
                                               GrantApproval(token, accountId))],
                         token.next_approval_id)

\* removes the entry of accountId if present
internalNftRevoke(caller, tokenId, accountId) ==
    IF tokenId \notin DOMAIN tokensById THEN Panic("Token not found", Persisted)
    ELSE
    LET token == tokensById[tokenId]
    IN  IF caller # token.owner_id THEN Panic("Unauthorized", Persisted)
        ELSE IF accountId \notin DOMAIN token.approved_account_ids THEN Return(Persisted)
        ELSE Return([Persisted EXCEPT
                       !.tokensById = Put(tokensById, tokenId,
                                          [token EXCEPT !.approved_account_ids =
                                                            Del(@, accountId)])])

\* clears the approval map
internalNftRevokeAll(caller, tokenId) ==
    IF tokenId \notin DOMAIN tokensById THEN Panic("Token not found", Persisted)
    ELSE
    LET token == tokensById[tokenId]
    IN  IF caller # token.owner_id THEN Panic("Unauthorized", Persisted)
        ELSE Return([Persisted EXCEPT
                       !.tokensById = Put(tokensById, tokenId,
                                          [token EXCEPT !.approved_account_ids = EmptyMap])])

----------------------------------------------------------------------------
(* Enumeration views *)

\* parseInt, on the decimal strings the views are called with
parseInt(str) == CHOOSE n \in 0..MaxTokens : ToString(n) = str

\* fromIndex ? parseInt(fromIndex) : 0
StartIndex(fromIndex) == IF fromIndex = None THEN 0 ELSE parseInt(fromIndex[1])

DefaultLimit == 50

\* limit ? limit : 50
MaxCount(limit) == IF limit = None \/ limit = Some(0) THEN DefaultLimit ELSE limit[1]

\* the JsonToken of a token ID: its ID and its owner
internalNftToken(tokenId) ==
    IF tokenId \in DOMAIN tokensById
    THEN [token_id |-> tokenId, owner_id |-> tokensById[tokenId].owner_id]
    ELSE None

\* tokensById.toArray(): the keys in the order they were first set.  The
\* Token Ledger of the model is a map that does not keep that order, so the
\* view is given every order of its keys
TokensByIdKeys ==
    LET n == Cardinality(DOMAIN tokensById)
    IN  {keys \in [1..n -> DOMAIN tokensById] : {keys[k] : k \in 1..n} = DOMAIN tokensById}

\* for (i = start; i < keys.length && i < start + max; i++): keys[start ..]
internalNftTokens(keys, fromIndex, limit) ==
    LET start == StartIndex(fromIndex)
        max == MaxCount(limit)
        end == IF Len(keys) < start + max THEN Len(keys) ELSE start + max
    IN  [k \in 1..(end - start) |-> internalNftToken(keys[start + k])]

\* for (i = start; i < max; i++) { if (i >= keys.length) break; ... }
internalTokensForOwner(accountId, fromIndex, limit) ==
    IF accountId \notin DOMAIN tokensPerOwner THEN <<>>
    ELSE
    LET start == StartIndex(fromIndex)
        max == MaxCount(limit)
        keys == tokensPerOwner[accountId]
        end == IF Len(keys) < max THEN Len(keys) ELSE max
    IN  [k \in 1..(end - start) |-> internalNftToken(keys[start + k])]

\* the same loop over the token set of the series
internalNftTokensForSeries(id, fromIndex, limit) ==
    IF id \notin DOMAIN seriesById THEN <<>>
    ELSE
    LET start == StartIndex(fromIndex)
        max == MaxCount(limit)
        keys == ToArray(storage, seriesById[id].tokens)
        end == IF Len(keys) < max THEN Len(keys) ELSE max
    IN  [k \in 1..(end - start) |-> internalNftToken(keys[start + k])]

----------------------------------------------------------------------------
(* Allow-lists *)

\* faulty variant: an approved minter passes the check too
OnlyCurrentAccount_OrMinter(predecessor) ==
    predecessor = currentAccountId \/ predecessor \in approvedMinters

\* the self-authorization check of the owner entry points
OnlyCurrentAccount(predecessor) == predecessor = currentAccountId

----------------------------------------------------------------------------
(* Entry points *)

\* logs: the EVENT_JSON lines the invocation logged
Outcome(op, caller, id, arg, err) ==
    [op |-> op, caller |-> caller, id |-> id, arg |-> arg, err |-> err, logs |-> <<>>]

\* the host applies what the invocation committed
Apply(r) ==
    /\ seriesById' = r.state.seriesById
    /\ tokensById' = r.state.tokensById
    /\ tokensPerOwner' = r.state.tokensPerOwner
    /\ storage' = r.state.storage

Init ==
    /\ approvedMinters = {}
    /\ approvedCreators = {}
    /\ seriesById = EmptyMap
    /\ tokensById = EmptyMap
    /\ tokensPerOwner = EmptyMap
    /\ storage = EmptyStorage
    /\ pending = {}
    /\ unrenamed = {}
    /\ last = Outcome("init", currentAccountId, 0, 0, OK)

create_series ==
    \E predecessor \in Callers, id \in SeriesIds, copies \in CopiesInputs,
       royalty \in RoyaltyInputs, attachedDeposit \in DepositInputs :
        \E r \in {internalCreateSeries(predecessor, id, copies, royalty, attachedDeposit)} :
            /\ Apply(r)
            /\ unrenamed' = IF r.err = OK THEN unrenamed \cup {id} ELSE unrenamed
            /\ last' = Outcome("create_series", predecessor, id,
                               [deposit |-> attachedDeposit,
                                refund |-> IF r.err = OK THEN r.refund ELSE 0],
                               r.err)
            /\ UNCHANGED <<approvedMinters, approvedCreators, pending>>

nft_mint ==
    \E predecessor \in Callers, id \in SeriesIds, receiverId \in Receivers :
        \E r \in {internalMint(predecessor, id, receiverId)} :
            /\ r.err = OK => Cardinality(DOMAIN tokensById) < MaxTokens
            /\ Apply(r)
            /\ last' = [Outcome("nft_mint", predecessor, id, receiverId, r.err)
                           EXCEPT !.logs = IF r.err = OK THEN r.logs ELSE <<>>]
            /\ UNCHANGED <<approvedMinters, approvedCreators, pending, unrenamed>>

update_series_id ==
    \E caller \in Callers, currentId \in SeriesIds, newId \in SeriesIds :
        \E r \in {internalUpdateSeriesId(caller, currentId, newId)} :
            /\ Apply(r)
            /\ unrenamed' = IF r.err = OK THEN unrenamed \ {currentId, newId} ELSE unrenamed
            /\ last' = Outcome("update_series_id", caller, currentId, newId, r.err)
            /\ UNCHANGED <<approvedMinters, approvedCreators, pending>>

add_approved_minters ==
    \E predecessor \in Callers, accountId \in Listable :
        /\ approvedMinters' = IF OnlyCurrentAccount(predecessor)
                              THEN approvedMinters \cup {accountId} ELSE approvedMinters
        /\ last' = Outcome("add_approved_minters", predecessor, 0, accountId,
                           IF OnlyCurrentAccount(predecessor) THEN OK
                           ELSE "Only the current account can add approved minters")
        /\ UNCHANGED <<approvedCreators, seriesById, tokensById, tokensPerOwner,
                       storage, pending, unrenamed>>

remove_approved_minters ==
    \E predecessor \in Callers, accountId \in Listable :
        /\ approvedMinters' = IF OnlyCurrentAccount(predecessor)
                              THEN approvedMinters \ {accountId} ELSE approvedMinters
        /\ last' = Outcome("remove_approved_minters", predecessor, 0, accountId,
                           IF OnlyCurrentAccount(predecessor) THEN OK
                           ELSE "Only the current account can remove approved minters")
        /\ UNCHANGED <<approvedCreators, seriesById, tokensById, tokensPerOwner,
                       storage, pending, unrenamed>>

add_approved_creator ==
    \E predecessor \in Callers, accountId \in Listable :
        /\ approvedCreators' = IF OnlyCurrentAccount(predecessor)
                               THEN approvedCreators \cup {accountId} ELSE approvedCreators
        /\ last' = Outcome("add_approved_creator", predecessor, 0, accountId,
                           IF OnlyCurrentAccount(predecessor) THEN OK
                           ELSE "Only the current account can add approved creators")
        /\ UNCHANGED <<approvedMinters, seriesById, tokensById, tokensPerOwner,
                       storage, pending, unrenamed>>

remove_approved_creator ==
    \E predecessor \in Callers, accountId \in Listable :
        /\ approvedCreators' = IF OnlyCurrentAccount(predecessor)
                               THEN approvedCreators \ {accountId} ELSE approvedCreators
        /\ last' = Outcome("remove_approved_creator", predecessor, 0, accountId,
                           IF OnlyCurrentAccount(predecessor) THEN OK
                           ELSE "Only the current account can remove approved creators")
        /\ UNCHANGED <<approvedMinters, seriesById, tokensById, tokensPerOwner,
                       storage, pending, unrenamed>>

\* token_id argument of the transfers: a token of the ledger, or an absent one
TokenIdInputs == (DOMAIN tokensById) \cup {AbsentTokenId}

nft_transfer ==
    \E senderId \in Accounts, receiverId \in Accounts, tokenId \in TokenIdInputs,
       approvalId \in ApprovalIdInputs :
        \E r \in {internalNftTransfer(senderId, receiverId, tokenId, approvalId)} :
            /\ Apply(r)
            /\ last' = Outcome("nft_transfer", senderId, 0, tokenId, r.err)
            /\ UNCHANGED <<approvedMinters, approvedCreators, pending, unrenamed>>

nft_transfer_call ==
    \E senderId \in Accounts, receiverId \in Accounts, tokenId \in TokenIdInputs,
       approvalId \in ApprovalIdInputs :
        \E r \in {internalNftTransferCall(senderId, receiverId, tokenId, approvalId)} :
            /\ r.err = OK => Cardinality(pending) < MaxPending
            /\ Apply(r)
            /\ pending' = IF r.err = OK
                          THEN pending \cup {[owner_id |-> tokensById[tokenId].owner_id,
                                              receiver_id |-> receiverId,
                                              token_id |-> tokenId,
                                              approved_account_ids |->
                                                  tokensById[tokenId].approved_account_ids]}
                          ELSE pending
            /\ last' = Outcome("nft_transfer_call", senderId, 0, tokenId, r.err)
            /\ UNCHANGED <<approvedMinters, approvedCreators, unrenamed>>

\* the host runs the continuation of a settled nft_on_transfer call, as the
\* contract account
nft_resolve_transfer ==
    \E p \in pending, outcome \in PromiseOutcomes :
        \E r \in {internalResolveTransfer(p.owner_id, p.receiver_id, p.token_id,
                                           p.approved_account_ids, outcome)} :
            /\ Apply(r)
            /\ pending' = pending \ {p}
            /\ last' = Outcome("nft_resolve_transfer", currentAccountId, 0,
                               [token_id |-> p.token_id,
                                approved_account_ids |-> p.approved_account_ids,
                                outcome |-> outcome,
                                kept |-> r.value],
                               r.err)
            /\ UNCHANGED <<approvedMinters, approvedCreators, unrenamed>>

nft_transfer_payout ==
    \E senderId \in Accounts, receiverId \in Accounts, tokenId \in TokenIdInputs,
       approvalId \in ApprovalIdInputs, balance \in TransferBalanceInputs,
       maxLenPayout \in MaxLenPayoutInputs :
        \E r \in {internalNftTransferPayout(senderId, receiverId, tokenId, approvalId,
                                           balance, maxLenPayout)} :
            /\ Apply(r)
            /\ last' = Outcome("nft_transfer_payout", senderId, 0,
                               [token_id |-> tokenId, balance |-> balance,
                                max_len_payout |-> maxLenPayout,
                                payout |-> IF r.err = OK THEN r.value ELSE EmptyMap],
                               r.err)
            /\ UNCHANGED <<approvedMinters, approvedCreators, pending, unrenamed>>

\* view: it reads the ledger and returns the payout
nft_payout ==
    \E tokenId \in TokenIdInputs, balance \in BalanceInputs,
       maxLenPayout \in MaxLenPayoutInputs :
        \E r \in {internalNftPayout(tokenId, balance, maxLenPayout)} :
            /\ last' = Outcome("nft_payout", currentAccountId, 0,
                               [token_id |-> tokenId, balance |-> balance,
                                max_len_payout |-> maxLenPayout,
                                payout |-> IF r.err = OK THEN r.value ELSE EmptyMap],
                               r.err)
            /\ UNCHANGED <<approvedMinters, approvedCreators, seriesById, tokensById,
                           tokensPerOwner, storage, pending, unrenamed>>

nft_approve ==
    \E caller \in Accounts, tokenId \in TokenIdInputs, accountId \in ApprovedAccountInputs :
        \E r \in {internalNftApprove(caller, tokenId, accountId)} :
            /\ r.err = OK => tokensById[tokenId].next_approval_id < MaxApprovals
            /\ Apply(r)
            /\ last' = Outcome("nft_approve", caller, 0,
                               [token_id |-> tokenId, account_id |-> accountId], r.err)
            /\ UNCHANGED <<approvedMinters, approvedCreators, pending, unrenamed>>

nft_revoke ==
    \E caller \in Accounts, tokenId \in TokenIdInputs, accountId \in ApprovedAccountInputs :
        \E r \in {internalNftRevoke(caller, tokenId, accountId)} :
            /\ Apply(r)
            /\ last' = Outcome("nft_revoke", caller, 0,
                               [token_id |-> tokenId, account_id |-> accountId], r.err)
            /\ UNCHANGED <<approvedMinters, approvedCreators, pending, unrenamed>>

nft_revoke_all ==
    \E caller \in Accounts, tokenId \in TokenIdInputs :
        \E r \in {internalNftRevokeAll(caller, tokenId)} :
            /\ Apply(r)
            /\ last' = Outcome("nft_revoke_all", caller, 0, [token_id |-> tokenId], r.err)
            /\ UNCHANGED <<approvedMinters, approvedCreators, pending, unrenamed>>

\* view: a window of the whole Token Ledger
nft_tokens ==
    \E keys \in TokensByIdKeys, fromIndex \in FromIndexInputs, limit \in LimitInputs :
        /\ last' = Outcome("nft_tokens", currentAccountId, 0,
                           [keys |-> keys, from_index |-> fromIndex, limit |-> limit,
                            tokens |-> internalNftTokens(keys, fromIndex, limit)],
                           OK)
        /\ UNCHANGED <<approvedMinters, approvedCreators, seriesById, tokensById,
                       tokensPerOwner, storage, pending, unrenamed>>

\* view: a window of the tokens of an account
nft_tokens_for_owner ==
    \E accountId \in Accounts, fromIndex \in FromIndexInputs, limit \in LimitInputs :
        /\ last' = Outcome("nft_tokens_for_owner", currentAccountId, 0,
                           [account_id |-> accountId, from_index |-> fromIndex, limit |-> limit,
                            tokens |-> internalTokensForOwner(accountId, fromIndex, limit)],
                           OK)
        /\ UNCHANGED <<approvedMinters, approvedCreators, seriesById, tokensById,
                       tokensPerOwner, storage, pending, unrenamed>>

\* view: a window of the tokens of a series
nft_tokens_for_series ==
    \E id \in SeriesIds, fromIndex \in FromIndexInputs, limit \in LimitInputs :
        /\ last' = Outcome("nft_tokens_for_series", currentAccountId, id,
                           [from_index |-> fromIndex, limit |-> limit,
                            tokens |-> internalNftTokensForSeries(id, fromIndex, limit)],
                           OK)
        /\ UNCHANGED <<approvedMinters, approvedCreators, seriesById, tokensById,
                       tokensPerOwner, storage, pending, unrenamed>>

\* series lifecycle and minting, with the minter allow-list
Next ==
    \/ create_series
    \/ nft_mint
    \/ update_series_id
    \/ add_approved_minters
    \/ remove_approved_minters

Spec == Init /\ [][Next]_vars

\* the same with the creator allow-list
NextAuth ==
    \/ create_series
    \/ nft_mint
    \/ update_series_id
    \/ add_approved_minters
    \/ remove_approved_minters
    \/ add_approved_creator
    \/ remove_approved_creator

SpecAuth == Init /\ [][NextAuth]_vars

\* minting and the transfers
NextLedger ==
    \/ create_series
    \/ nft_mint
    \/ nft_transfer
    \/ nft_transfer_call
    \/ nft_resolve_transfer
    \/ nft_transfer_payout

SpecLedger == Init /\ [][NextLedger]_vars

\* the ledger after create_series(0) with a royalty table of RoyaltyTables
\* and nft_mint(0, receiver), both by the contract account
InitPayout ==
    \E royalty \in RoyaltyTables, receiverId \in Receivers :
        LET id == 0
            series == NewSeries(id, currentAccountId, None, royalty)
            tokenId == MintTokenId(id, 0)
            set == UnorderedSetSet(EmptyStorage, series.tokens, tokenId)
        IN  /\ approvedMinters = {}
            /\ approvedCreators = {}
            /\ seriesById = Put(EmptyMap, id, [series EXCEPT !.tokens = set.set])
            /\ storage = set.storage
            /\ tokensById = Put(EmptyMap, tokenId, NewToken(id, receiverId))
            /\ tokensPerOwner = internalAddTokenToOwner(EmptyMap, receiverId, tokenId)
            /\ pending = {}
            /\ unrenamed = {id}
            /\ last = [Outcome("nft_mint", currentAccountId, id, receiverId, OK)
                          EXCEPT !.logs = <<nftMintLog(NewToken(id, receiverId), tokenId)>>]

\* the ledger after add_approved_minters(alice), create_series(0),
\* nft_mint(0, receiver) and update_series_id(0, ParkedId), all by the
\* contract account: a series that holds a token sits under an id the
\* invocations of the specification do not name
InitRename ==
    \E royalty \in RoyaltyInputs, receiverId \in Receivers :
        LET id == 0
            series == NewSeries(id, currentAccountId, None, royalty)
            tokenId == MintTokenId(id, 0)
            set == UnorderedSetSet(EmptyStorage, series.tokens, tokenId)
        IN  /\ approvedMinters = {"alice"}
            /\ approvedCreators = {}
            /\ seriesById = Put(EmptyMap, ParkedId, [series EXCEPT !.tokens = set.set])
            /\ storage = set.storage
            /\ tokensById = Put(EmptyMap, tokenId, NewToken(id, receiverId))
            /\ tokensPerOwner = internalAddTokenToOwner(EmptyMap, receiverId, tokenId)
            /\ pending = {}
            /\ unrenamed = {}
            /\ last = Outcome("update_series_id", currentAccountId, id, ParkedId, OK)

\* series lifecycle and minting next to that series
NextRename ==
    \/ create_series
    \/ nft_mint
    \/ update_series_id

SpecRename == InitRename /\ [][NextRename]_vars

\* the payouts of a minted token, as it changes hands
NextPayout ==
    \/ nft_payout
    \/ nft_transfer_payout

SpecPayout == InitPayout /\ [][NextPayout]_vars

\* minting, the approvals and the simple transfer
NextApproval ==
    \/ create_series
    \/ nft_mint
    \/ nft_approve
    \/ nft_revoke
    \/ nft_revoke_all
    \/ nft_transfer

SpecApproval == Init /\ [][NextApproval]_vars

\* minting, approving and transfer-and-call
NextTransferCall ==
    \/ create_series
    \/ nft_mint
    \/ nft_approve
    \/ nft_transfer_call
    \/ nft_resolve_transfer

SpecTransferCall == Init /\ [][NextTransferCall]_vars

\* minting and the paginated views
NextViews ==
    \/ create_series
    \/ nft_mint
    \/ nft_tokens
    \/ nft_tokens_for_owner
    \/ nft_tokens_for_series

SpecViews == Init /\ [][NextViews]_vars

\* the Series Registry alone: creating and renaming series
NextSeries ==
    \/ create_series
    \/ update_series_id

SpecSeries == Init /\ [][NextSeries]_vars

----------------------------------------------------------------------------
(* Views used by the properties *)

\* nft_total_supply: tokensById.len()
internalTotalSupply == Cardinality(DOMAIN tokensById)

\* nft_supply_for_series: tokens.len()
SeriesSupply(id) == seriesById[id].tokens.length

\* the token IDs nft_tokens_for_series walks: tokens.toArray()
SeriesTokens(id) == ToArray(storage, seriesById[id].tokens)

CapReached(id) ==
    /\ id \in DOMAIN seriesById
    /\ seriesById[id].metadata.copies # None
    /\ SeriesSupply(id) = seriesById[id].metadata.copies[1]

Range(seq) == {seq[k] : k \in 1..Len(seq)}

----------------------------------------------------------------------------
(* Properties *)

\* C1: every token of the Token Ledger is in the owner-index set of exactly
\* one account, and that account is the token's owner_id.
C1_OwnerIndex ==
    \A tokenId \in DOMAIN tokensById :
        \A a \in Accounts :
            (a \in DOMAIN tokensPerOwner /\ tokenId \in Range(tokensPerOwner[a]))
                <=> a = tokensById[tokenId].owner_id

\* C1 witness: a transfer-and-call has been resolved and two accounts each
\* hold a token.
C1_Witness ==
    /\ last.op = "nft_resolve_transfer"
    /\ Cardinality(DOMAIN tokensById) >= 2
    /\ Cardinality(DOMAIN tokensPerOwner) >= 2

\* C2: every series whose metadata.copies is set holds at most `copies`
\* token IDs in its token set.
C2_CopiesCap ==
    \A id \in DOMAIN seriesById :
        seriesById[id].metadata.copies # None =>
            /\ SeriesSupply(id) <= seriesById[id].metadata.copies[1]
            /\ Cardinality(Range(SeriesTokens(id))) <= seriesById[id].metadata.copies[1]

\* C2 witness: a mint has just filled a capped series.
C2_Witness ==
    /\ last.op = "nft_mint" /\ last.err = OK
    /\ CapReached(last.id)

\* C3: a series created under id and not renamed since holds, after N
\* successful mints, exactly the token IDs id:1 .. id:N in mint order, and
\* the token a mint creates is owned by that mint's receiver.
C3_MintSequence ==
    /\ \A id \in unrenamed :
           SeriesTokens(id) = [k \in 1..SeriesSupply(id) |-> MintTokenId(id, k - 1)]
    /\ (last.op = "nft_mint" /\ last.err = OK /\ last.id \in unrenamed) =>
           LET tokenId == MintTokenId(last.id, SeriesSupply(last.id) - 1)
           IN  /\ tokenId \in DOMAIN tokensById
               /\ tokensById[tokenId].owner_id = last.arg

\* C4: a mint by an authorized caller on a series whose minted count
\* equals its copies cap fails with "Series is full" and changes nothing.
C4_SeriesFull ==
    [][ ( /\ last'.op = "nft_mint"
          /\ MintAuthorized(last'.caller)
          /\ CapReached(last'.id) )
        => ( /\ last'.err = "Series is full"
             /\ UNCHANGED <<ledger, approvedMinters, approvedCreators>> ) ]_vars

\* C4 witness: a mint was rejected as full and the series is still at its cap.
C4_Witness ==
    /\ last.op = "nft_mint" /\ last.err = "Series is full"
    /\ CapReached(last.id)

C6_CreateAuthorization ==
    [][ last'.op = "create_series" =>
          ( (last'.err = "Not approved minter")
              <=> ~(last'.caller = currentAccountId \/ last'.caller \in approvedCreators) ) ]_vars

\* C7: the series_id of every token in the Token Ledger is the id of a
\* series present in the Series Registry.
C7_TokenSeriesExists ==
    \A tokenId \in DOMAIN tokensById :
        tokensById[tokenId].series_id \in DOMAIN seriesById

\* C8: a mint that passes the authorization, series-exists and copies-cap
\* checks never derives a token ID that is already in the Token Ledger.
C8_NoDuplicateToken ==
    last.op = "nft_mint" => last.err # "Token already exists"

\* C9: a mint that fails at any of its checks leaves the series' token
\* set, the Token Ledger and the Owner Index as they were.
C9_FailedMintNoWrites ==
    [][ (last'.op = "nft_mint" /\ last'.err # OK)
        => UNCHANGED <<seriesById, tokensById, tokensPerOwner, storage>> ]_vars

\* C9 witness: a mint failed at the "Token already exists" check, after it
\* had staged the insertion of the token ID into a token set that lacked it.
C9_Witness ==
    /\ last.op = "nft_mint" /\ last.err = "Token already exists"
    /\ last.id \in DOMAIN seriesById
    /\ NextTokenId(last.id) \notin storage[seriesById[last.id].tokens.prefix].i

\* C10: update_series_id by the series owner to an id that already has a
\* series (newId = currentId included) fails with "New Series already
\* exists" and leaves the registry as it was.
C10_RenameToExisting ==
    [][ ( /\ last'.op = "update_series_id"
          /\ last'.id \in DOMAIN seriesById
          /\ seriesById[last'.id].owner_id = last'.caller
          /\ last'.arg \in DOMAIN seriesById )
        => ( /\ last'.err = "New Series already exists"
             /\ UNCHANGED <<seriesById, tokensById, tokensPerOwner, storage>> ) ]_vars

\* C10 witness: the owner's rename onto another existing series was
\* rejected and both series are still registered.
C10_Witness ==
    /\ last.op = "update_series_id" /\ last.err = "New Series already exists"
    /\ last.arg # last.id
    /\ {last.id, last.arg} \subseteq DOMAIN seriesById
    /\ seriesById[last.id].owner_id = last.caller

\* C11: update_series_id fails with "no series" when currentId has no
\* series, and with "Not owner" whenever the caller is not the series'
\* owner_id, the contract account and approved minters included; in both
\* cases the Series Registry is left as it was.
C11_RenameNotFoundUnauthorized ==
    [][ last'.op = "update_series_id" =>
          /\ last'.id \notin DOMAIN seriesById
                => (last'.err = "no series" /\ UNCHANGED <<seriesById, storage>>)
          /\ (last'.id \in DOMAIN seriesById
               /\ seriesById[last'.id].owner_id # last'.caller)
                => (last'.err = "Not owner" /\ UNCHANGED <<seriesById, storage>>) ]_vars

\* C11 witness: the contract account was refused the rename of a series
\* that an approved minter created, and the series is still under its id.
C11_Witness ==
    /\ last.op = "update_series_id" /\ last.err = "Not owner"
    /\ last.caller = currentAccountId
    /\ last.id \in DOMAIN seriesById
    /\ seriesById[last.id].owner_id # currentAccountId

\* C12 as stated: create_series with an id that has a Series record fails
\* with "Series already exists" for every caller and leaves the record as
\* it was.
C12_DuplicateForEveryCaller ==
    [][ (last'.op = "create_series" /\ last'.id \in DOMAIN seriesById)
        => ( /\ last'.err = "Series already exists"
             /\ UNCHANGED <<seriesById, storage>> ) ]_vars

\* C12 amended: create_series with an id that has a Series record fails for
\* every caller and leaves the record (metadata, royalty, owner, token set)
\* as it was; it fails with "Series already exists" when the caller passes
\* the authorization check that comes first (the contract account always
\* does), and with that check's error otherwise.
C12_DuplicateSeries ==
    [][ (last'.op = "create_series" /\ last'.id \in DOMAIN seriesById)
        => ( /\ last'.err \in {"Series already exists", "Not approved minter"}
             /\ last'.err = "Not approved minter" <=> ~CreateAuthorized(last'.caller)
             /\ last'.caller = currentAccountId => last'.err = "Series already exists"
             /\ UNCHANGED <<seriesById, storage>> ) ]_vars

\* C12 witness: an approved account's create_series on the id of a series
\* of another owner, which holds a token, was rejected as a duplicate.
C12_Witness ==
    /\ last.op = "create_series" /\ last.err = "Series already exists"
    /\ last.caller # currentAccountId
    /\ last.id \in DOMAIN seriesById
    /\ seriesById[last.id].owner_id # last.caller
    /\ SeriesSupply(last.id) > 0

\* C13: when the nft_on_transfer call of a transfer-and-call from O to R
\* failed or signalled "return token", nft_resolve_transfer leaves the token
\* with O if R still owns it, and leaves it with its current owner,
\* changing nothing, if it has moved on from R in between.
C13_ResolveTransfer ==
    [][ ( /\ last'.op = "nft_resolve_transfer"
          /\ last'.arg.outcome \in {"failed", "return"} )
        => \A p \in pending \ pending' :
               /\ tokensById[p.token_id].owner_id = p.receiver_id
                    => /\ tokensById'[p.token_id].owner_id = p.owner_id
                       /\ last'.arg.kept = FALSE
               /\ tokensById[p.token_id].owner_id # p.receiver_id
                    => /\ UNCHANGED ledger
                       /\ last'.arg.kept = TRUE ]_vars

\* C13 witness: a resolution whose call signalled "return token" found the
\* token with a third party and left it there, while another account holds
\* a token too.
C13_Witness ==
    /\ last.op = "nft_resolve_transfer"
    /\ last.arg.outcome = "return"
    /\ last.arg.kept = TRUE
    /\ tokensById[last.arg.token_id].owner_id = "nft"
    /\ Cardinality(DOMAIN tokensPerOwner) >= 2

\* C14: when nft_resolve_transfer rolls a transfer-and-call back, the token
\* is with its previous owner again and its approval map is empty, whatever
\* approved_account_ids the resolution was invoked with.
C14_ApprovalsNotRestored ==
    [][ ( /\ last'.op = "nft_resolve_transfer"
          /\ last'.arg.outcome \in {"failed", "return"} )
        => \A p \in pending \ pending' :
               tokensById[p.token_id].owner_id = p.receiver_id
                 => /\ tokensById'[p.token_id].owner_id = p.owner_id
                    /\ tokensById'[p.token_id].approved_account_ids = EmptyMap ]_vars

\* C14 witness: a transfer-and-call of a token that had an approval was
\* rolled back, and the token has no approval now.
C14_Witness ==
    /\ last.op = "nft_resolve_transfer"
    /\ last.arg.kept = FALSE
    /\ last.arg.approved_account_ids # EmptyMap
    /\ tokensById[last.arg.token_id].approved_account_ids = EmptyMap

\* C15: a successful nft_approve assigns the token's next_approval_id, which
\* is above every approval id the token holds, and increments the counter;
\* no step lowers a token's next_approval_id, and nft_revoke and
\* nft_revoke_all leave it as it is: the ids nft_approve assigns to a token
\* are strictly increasing.
C15_ApprovalIdsIncrease ==
    [][ /\ \A t \in DOMAIN tokensById :
              /\ t \in DOMAIN tokensById'
              /\ tokensById'[t].next_approval_id >= tokensById[t].next_approval_id
              /\ \A a \in DOMAIN tokensById[t].approved_account_ids :
                     tokensById[t].approved_account_ids[a] < tokensById[t].next_approval_id
        /\ (last'.op = "nft_approve" /\ last'.err = OK)
              => LET t == last'.arg.token_id
                     a == last'.arg.account_id
                 IN  /\ tokensById'[t].approved_account_ids[a] = tokensById[t].next_approval_id
                     /\ tokensById'[t].next_approval_id = tokensById[t].next_approval_id + 1
        /\ (last'.op \in {"nft_revoke", "nft_revoke_all"})
              => \A t \in DOMAIN tokensById :
                     tokensById'[t].next_approval_id = tokensById[t].next_approval_id ]_vars

\* C15 witness: an approval was granted with id 1 on a token whose approval
\* map held nothing else, the approval with id 0 being gone.
C15_Witness ==
    /\ last.op = "nft_approve" /\ last.err = OK
    /\ tokensById[last.arg.token_id].approved_account_ids
           = Put(EmptyMap, last.arg.account_id, 1)
    /\ tokensById[last.arg.token_id].next_approval_id = 2

\* the payout C16 describes: every royalty account its floored share, the
\* owner the rest of the balance
PayoutAsClaimed(payout, royalty, ownerId, balance) ==
    /\ DOMAIN payout = (DOMAIN royalty) \cup {ownerId}
    /\ \A a \in (DOMAIN royalty) \ {ownerId} :
           payout[a] = (balance * royalty[a]) \div 10000
    /\ payout[ownerId]
         = balance - SumOver([a \in (DOMAIN royalty) \ {ownerId} |->
                                 (balance * royalty[a]) \div 10000],
                             (DOMAIN royalty) \ {ownerId})
    /\ \A a \in DOMAIN payout : payout[a] >= 0
    /\ SumOver(payout, DOMAIN payout) = balance

\* C16: for a token of the ledger whose series' royalty table has at most
\* max_len_payout entries and basis points summing to at most 10000,
\* nft_payout succeeds and gives every royalty account
\* floor(balance * basisPoints / 10000) and the token's owner the remainder,
\* so that the payouts sum to balance; a successful nft_transfer_payout
\* returns the same payout, computed for the owner before the transfer.
C16_PayoutSum ==
    [][ (last'.op \in {"nft_payout", "nft_transfer_payout"}
         /\ last'.arg.token_id \in DOMAIN tokensById
         /\ tokensById[last'.arg.token_id].series_id \in DOMAIN seriesById)
        => LET token == tokensById[last'.arg.token_id]
               royalty == seriesById[token.series_id].royalty
           IN  ( /\ Cardinality(DOMAIN royalty) <= last'.arg.max_len_payout
                 /\ SumOver(royalty, DOMAIN royalty) <= 10000 )
               => /\ last'.op = "nft_payout" => last'.err = OK
                  /\ last'.err = OK
                       => PayoutAsClaimed(last'.arg.payout, royalty, token.owner_id,
                                          last'.arg.balance) ]_vars

\* C16 witness: nft_payout with balance 1000 on a token whose series has the
\* royalty table {alice: 2000, bob: 1000} gave alice 200, bob 100 and the
\* owner, a third account, 700.
C16_Witness ==
    /\ last.op = "nft_payout" /\ last.err = OK
    /\ last.arg.balance = 1000
    /\ last.arg.payout = [a \in {"alice", "bob", "nft"} |->
                             IF a = "alice" THEN 200 ELSE IF a = "bob" THEN 100 ELSE 700]
    /\ tokensById[last.arg.token_id].owner_id = "nft"

\* C17: the two allow-lists change only in an add or remove invocation by
\* the contract account; such an invocation by any other caller fails and
\* leaves both sets as they were, and by the contract account it changes
\* only the membership of the named account in the named set.
C17_AllowListsSelfOnly ==
    [][ /\ (approvedMinters' # approvedMinters \/ approvedCreators' # approvedCreators)
              => /\ last'.caller = currentAccountId
                 /\ last'.op \in {"add_approved_minters", "remove_approved_minters",
                                  "add_approved_creator", "remove_approved_creator"}
        /\ ( /\ last'.op \in {"add_approved_minters", "remove_approved_minters",
                               "add_approved_creator", "remove_approved_creator"}
              /\ last'.caller # currentAccountId )
              => /\ last'.err # OK
                 /\ UNCHANGED <<approvedMinters, approvedCreators>>
        /\ (last'.op = "add_approved_minters" /\ last'.caller = currentAccountId)
              => /\ last'.err = OK
                 /\ approvedMinters' = approvedMinters \cup {last'.arg}
                 /\ UNCHANGED approvedCreators
        /\ (last'.op = "remove_approved_minters" /\ last'.caller = currentAccountId)
              => /\ last'.err = OK
                 /\ approvedMinters' = approvedMinters \ {last'.arg}
                 /\ UNCHANGED approvedCreators
        /\ (last'.op = "add_approved_creator" /\ last'.caller = currentAccountId)
              => /\ last'.err = OK
                 /\ approvedCreators' = approvedCreators \cup {last'.arg}
                 /\ UNCHANGED approvedMinters
        /\ (last'.op = "remove_approved_creator" /\ last'.caller = currentAccountId)
              => /\ last'.err = OK
                 /\ approvedCreators' = approvedCreators \ {last'.arg}
                 /\ UNCHANGED approvedMinters ]_vars

\* C17 witness: an approved minter was refused the removal of an approved
\* creator, and both sets still hold their accounts.
C17_Witness ==
    /\ last.op = "remove_approved_creator"
    /\ last.caller # currentAccountId
    /\ last.err # OK
    /\ last.caller \in approvedMinters
    /\ last.arg \in approvedCreators

\* C18: create_series by a caller that passes the authorization check, on
\* an id that is free, fails with "Must attach deposit to cover storage"
\* and leaves no series under the id when the attached deposit is below the
\* cost of the storage the series write takes; otherwise it creates the
\* series and refunds the caller exactly the deposit minus that cost.
C18_DepositAndRefund ==
    [][ ( /\ last'.op = "create_series"
          /\ CreateAuthorized(last'.caller)
          /\ last'.id \notin DOMAIN seriesById )
        => IF last'.arg.deposit < SeriesStorageCost
           THEN /\ last'.err = "Must attach deposit to cover storage"
                /\ last'.id \notin DOMAIN seriesById'
                /\ last'.arg.refund = 0
                /\ UNCHANGED ledger
           ELSE /\ last'.err = OK
                /\ last'.id \in DOMAIN seriesById'
                /\ last'.arg.refund = last'.arg.deposit - SeriesStorageCost ]_vars

\* C18 witness: a series was created with more deposit attached than its
\* storage costs, and the caller got the excess back.
C18_Witness ==
    /\ last.op = "create_series" /\ last.err = OK
    /\ last.arg.deposit > SeriesStorageCost
    /\ last.arg.refund = last.arg.deposit - SeriesStorageCost
    /\ last.id \in DOMAIN seriesById

\* C19: a successful nft_mint logs exactly one event, with standard
\* "nep171", version "nft-1.0.0", event "nft_mint", owner_id the receiver
\* and token_ids the one token ID the mint added to the Token Ledger; a
\* mint that fails logs nothing.
C19_MintEvent ==
    [][ last'.op = "nft_mint" =>
          IF last'.err = OK
          THEN \E tokenId \in (DOMAIN tokensById') \ (DOMAIN tokensById) :
                  /\ DOMAIN tokensById' = (DOMAIN tokensById) \cup {tokenId}
                  /\ last'.logs =
                       << [standard |-> "nep171",
                           version  |-> "nft-1.0.0",
                           event    |-> "nft_mint",
                           data     |-> <<[owner_id |-> last'.arg,
                                           token_ids |-> <<tokenId>>]>>] >>
          ELSE last'.logs = <<>> ]_vars

\* C19 witness: the second mint of a series logged its event for the token
\* ID with sequence number 2.
C19_Witness ==
    /\ last.op = "nft_mint" /\ last.err = OK
    /\ Len(last.logs) = 1
    /\ last.logs[1].data[1].token_ids = <<MintTokenId(last.id, 1)>>
    /\ last.logs[1].data[1].owner_id = last.arg

\* C20: a successful update_series_id(currentId, newId) leaves no series
\* under currentId and puts the same record, with the same token set, under
\* newId; the number of series, every other series, the Token Ledger, the
\* Owner Index and both allow-lists are as they were.
C20_RenameFrame ==
    [][ (last'.op = "update_series_id" /\ last'.err = OK)
        => /\ last'.id \notin DOMAIN seriesById'
           /\ last'.arg \in DOMAIN seriesById'
           /\ seriesById'[last'.arg] = seriesById[last'.id]
           /\ ToArray(storage', seriesById'[last'.arg].tokens)
                = ToArray(storage, seriesById[last'.id].tokens)
           /\ Cardinality(DOMAIN seriesById') = Cardinality(DOMAIN seriesById)
           /\ \A id \in (DOMAIN seriesById) \ {last'.id} :
                  /\ id \in DOMAIN seriesById'
                  /\ seriesById'[id] = seriesById[id]
                  /\ ToArray(storage', seriesById'[id].tokens)
                       = ToArray(storage, seriesById[id].tokens)
           /\ UNCHANGED <<tokensById, tokensPerOwner, approvedMinters, approvedCreators>> ]_vars

\* C20 witness: a series that holds a token was renamed by its owner, an
\* approved minter, while another series, which holds a token too, stayed
\* under its id.
C20_Witness ==
    /\ last.op = "update_series_id" /\ last.err = OK
    /\ last.caller # currentAccountId
    /\ last.arg \in DOMAIN seriesById
    /\ SeriesSupply(last.arg) > 0
    /\ \E id \in (DOMAIN seriesById) \ {last.arg} : SeriesSupply(id) > 0

\* C21: across create_series, update_series_id and nft_mint, a successful
\* mint adds exactly one token ID that was not in the Token Ledger, leaves
\* every existing token record as it was and raises the total supply by
\* exactly 1; create_series and update_series_id leave the Token Ledger as
\* it was.
C21_MintAddsOneToken ==
    [][ /\ (last'.op = "nft_mint" /\ last'.err = OK)
           => /\ \E tokenId \in DOMAIN tokensById' :
                     /\ tokenId \notin DOMAIN tokensById
                     /\ DOMAIN tokensById' = (DOMAIN tokensById) \cup {tokenId}
              /\ \A tokenId \in DOMAIN tokensById :
                     tokensById'[tokenId] = tokensById[tokenId]
              /\ internalTotalSupply' = internalTotalSupply + 1
        /\ last'.op \in {"create_series", "update_series_id"}
           => UNCHANGED tokensById ]_vars

\* C21 witness: a mint succeeded on a series that had been renamed, next to
\* a token minted before the rename.
C21_Witness ==
    /\ last.op = "nft_mint" /\ last.err = OK
    /\ last.id \notin unrenamed
    /\ \E tokenId \in DOMAIN tokensById : tokensById[tokenId].series_id # last.id
    /\ internalTotalSupply = 2

\* C22: the total supply equals the sum of the series supplies over the
\* series of the Series Registry, and every token ID of the Token Ledger is
\* in the token set of exactly one series.
C22_SupplyPartition ==
    /\ internalTotalSupply
         = SumOver([id \in DOMAIN seriesById |-> SeriesSupply(id)], DOMAIN seriesById)
    /\ \A tokenId \in DOMAIN tokensById :
           Cardinality({id \in DOMAIN seriesById : tokenId \in Range(SeriesTokens(id))}) = 1

\* C23: in every state reached by create_series and update_series_id, no
\* two series of the Series Registry have token sets on the same storage
\* prefix.
C23_DistinctPrefixes ==
    \A id1 \in DOMAIN seriesById, id2 \in DOMAIN seriesById :
        id1 # id2 => seriesById[id1].tokens.prefix # seriesById[id2].tokens.prefix

\* the token IDs at positions s .. min(s + l, n) - 1 of keys (0-based)
Window(keys, s, l) ==
    SubSeq(keys, s + 1, IF Len(keys) < s + l THEN Len(keys) ELSE s + l)

\* the token IDs a view returned, and the set it walked
ReturnedIds == [k \in 1..Len(last.arg.tokens) |-> last.arg.tokens[k].token_id]

\* C24: for every from_index s >= 0 and every limit l > 0,
\* nft_tokens_for_owner and nft_tokens_for_series return exactly the tokens
\* at positions s .. min(s + l, n) - 1 of the owner's (the series') set of n
\* tokens, in order, as nft_tokens does over the whole ledger.
C24_PaginationWindow ==
    last.op \in {"nft_tokens_for_owner", "nft_tokens_for_series", "nft_tokens"} =>
        \A s \in 0..MaxTokens, l \in 1..MaxTokens :
            (last.arg.from_index = Some(ToString(s)) /\ last.arg.limit = Some(l))
            => /\ last.op = "nft_tokens_for_owner"
                  => ReturnedIds =
                       Window(IF last.arg.account_id \in DOMAIN tokensPerOwner
                              THEN tokensPerOwner[last.arg.account_id] ELSE <<>>, s, l)
               /\ last.op = "nft_tokens_for_series"
                  => ReturnedIds =
                       Window(IF last.id \in DOMAIN seriesById
                              THEN SeriesTokens(last.id) ELSE <<>>, s, l)
               /\ last.op = "nft_tokens"
                  => ReturnedIds = Window(last.arg.keys, s, l)

====
